---- MODULE Spec2Model ----
(***************************************************************************)
(* Model of src/mdp_network/solvers.py: policy_evaluation,                 *)
(* optimal_value_iteration, q_learning and compute_occupancy_measure.      *)
(*                                                                         *)
(* Numbers are exact rationals <<numerator, denominator>> (denominator     *)
(* positive, lowest terms); Python's floats are modelled by their exact    *)
(* values, so rounding is outside the model.  A solver call is run twice   *)
(* in a row (run = 1, then run = 2) so that two calls can be compared.     *)
(***************************************************************************)
EXTENDS Integers, Sequences, FiniteSets, TLC

\* ------------------------------------------------------------------ bounds
MaxIterations == 3
MaxEpisodes == 10
MaxSteps == 2
MaxSeed == 7

\* -------------------------------------------------------------- arithmetic
RECURSIVE GCD(_, _)
GCD(a, b) == IF b = 0 THEN a ELSE GCD(b, a % b)

IAbs(n) == IF n < 0 THEN -n ELSE n

Rat(n, d) ==
    LET g == GCD(IAbs(n), d) IN <<n \div g, d \div g>>

LCM(a, b) == (a \div GCD(a, b)) * b

Zero == <<0, 1>>
One == <<1, 1>>
Half == <<1, 2>>

RAdd(x, y) ==
    LET l == LCM(x[2], y[2])
    IN Rat(x[1] * (l \div x[2]) + y[1] * (l \div y[2]), l)

RNeg(x) == <<-x[1], x[2]>>

RSub(x, y) == RAdd(x, RNeg(y))

RMul(x, y) ==
    LET a == Rat(x[1], y[2])
        b == Rat(y[1], x[2])
    IN <<a[1] * b[1], a[2] * b[2]>>

RLt(x, y) ==
    LET l == LCM(x[2], y[2])
    IN x[1] * (l \div x[2]) < y[1] * (l \div y[2])

RLe(x, y) == ~RLt(y, x)

\* Python's abs() and two-argument max() (max returns its first argument
\* unless the second is strictly greater).
RAbs(x) == <<IAbs(x[1]), x[2]>>

RMax(x, y) == IF RLt(x, y) THEN y ELSE x

RECURSIVE RSum(_, _)
RSum(f, S) ==
    IF S = {} THEN Zero
    ELSE LET x == CHOOSE x \in S : TRUE
         IN RAdd(f[x], RSum(f, S \ {x}))

RECURSIVE RMaxOf(_, _)
RMaxOf(f, S) ==
    LET x == CHOOSE x \in S : \A y \in S : x <= y
    IN IF S = {x} THEN f[x] ELSE RMax(f[x], RMaxOf(f, S \ {x}))

\* The same over a set of any elements.
RECURSIVE RMaxStr(_, _)
RMaxStr(f, S) ==
    LET x == CHOOSE x \in S : TRUE
    IN IF S = {x} THEN f[x] ELSE RMax(f[x], RMaxStr(f, S \ {x}))

SeqSet(q) == {q[i] : i \in 1..Len(q)}

\* ------------------------------------------------------------ MDP fixtures
\* An MDPNetwork as the solvers see it: the iteration order of .states, the
\* number of actions, the terminal states, the start states, a reward per
\* state and a dict next-state -> probability per (state, action); <<>> is
\* the empty dict.
Chain2 ==
    [states |-> <<"A", "B">>, num_actions |-> 1, terminal |-> {"B"},
     start_states |-> <<"A">>,
     reward |-> ("A" :> Zero @@ "B" :> One),
     P |-> ("A" :> (0 :> ("B" :> One)) @@ "B" :> (0 :> <<>>))]

Chain3 ==
    [states |-> <<"B", "A", "C">>, num_actions |-> 1, terminal |-> {"C"},
     start_states |-> <<"A">>,
     reward |-> ("A" :> Zero @@ "B" :> Zero @@ "C" :> One),
     P |-> ("A" :> (0 :> ("B" :> One)) @@
            "B" :> (0 :> ("C" :> One)) @@
            "C" :> (0 :> <<>>))]

Diamond ==
    [states |-> <<"A", "B", "C">>, num_actions |-> 2, terminal |-> {"C"},
     start_states |-> <<"A">>,
     reward |-> ("A" :> Zero @@ "B" :> <<-1, 1>> @@ "C" :> <<2, 1>>),
     P |-> ("A" :> (0 :> ("B" :> Half @@ "C" :> Half) @@ 1 :> ("B" :> One)) @@
            "B" :> (0 :> ("C" :> One) @@ 1 :> ("C" :> One)) @@
            "C" :> (0 :> <<>> @@ 1 :> <<>>))]

Branch ==
    [states |-> <<"A", "B", "C">>, num_actions |-> 2, terminal |-> {"C"},
     start_states |-> <<"A", "B">>,
     reward |-> ("A" :> One @@ "B" :> <<-1, 1>> @@ "C" :> <<2, 1>>),
     P |-> ("A" :> (0 :> ("B" :> Half @@ "C" :> Half) @@ 1 :> <<>>) @@
            "B" :> (0 :> ("C" :> One) @@ 1 :> ("A" :> One)) @@
            "C" :> (0 :> <<>> @@ 1 :> <<>>))]

NoStart == [Chain2 EXCEPT !.start_states = <<>>]

Models == {Chain2, Chain3, Diamond, Branch, NoStart}

Actions(M) == 0..(M.num_actions - 1)

\* PolicyTable fixtures: state -> dict action -> probability.
PolicyUniform(M) ==
    [s \in SeqSet(M.states) |-> [a \in Actions(M) |-> Rat(1, M.num_actions)]]

PolicyFirst(M) ==
    [s \in SeqSet(M.states) |-> [a \in Actions(M) |-> IF a = 0 THEN One ELSE Zero]]

PolicyLast(M) ==
    [s \in SeqSet(M.states) |->
        [a \in Actions(M) |-> IF a = M.num_actions - 1 THEN One ELSE Zero]]

Policies(M) == {PolicyUniform(M), PolicyFirst(M), PolicyLast(M)}

\* The discount factors tried on a model; 0.9 on the two chains only, where
\* the exact values stay within TLC's 32-bit integers.
Gammas(M) ==
    IF M.num_actions = 1 THEN {Zero, Half, <<9, 10>>, One} ELSE {Zero, Half, One}

Thetas == {Zero, <<1, 4>>, <<3, 1>>}

\* The (state, action) pairs of a model whose distribution is empty on a
\* non-terminal state, and the model with one of them made an explicit
\* self-loop of probability 1.
EmptyPairs(M) ==
    {sa \in SeqSet(M.states) \X Actions(M) :
        sa[1] \notin M.terminal /\ DOMAIN M.P[sa[1]][sa[2]] = {}}

WithSelfLoop(M, sa) == [M EXCEPT !.P[sa[1]][sa[2]] = (sa[1] :> One)]

SecondModels(M) ==
    IF EmptyPairs(M) = {} THEN {M} ELSE {WithSelfLoop(M, sa) : sa \in EmptyPairs(M)}

\* ------------------------------------------------------------------- state
VARIABLES
    alg, models, policy, gamma, theta, max_iterations,
    alpha, epsilon, num_episodes, max_steps_per_episode, seed,
    run, pc, log, result,
    value_table, q_table,
    iteration, idx, max_delta, current_distribution, sweep_start, deltas,
    rng, episode, step, current_state, traj, last

inputs == <<alg, models, policy, gamma, theta, max_iterations,
            alpha, epsilon, num_episodes, max_steps_per_episode, seed>>

sweepvars == <<iteration, idx, max_delta, current_distribution, sweep_start, deltas>>

qlvars == <<rng, episode, step, current_state, traj, last>>

vars == <<inputs, run, pc, log, result, value_table, q_table, sweepvars, qlvars>>

mdp_network == models[run]

states == mdp_network.states

is_terminal_state(s) == s \in mdp_network.terminal

get_state_reward(s) == mdp_network.reward[s]

get_transition_probabilities(s, a) == mdp_network.P[s][a]

get_action_probabilities(s) == policy[s]

NoResult ==
    [returned |-> FALSE, raised |-> FALSE, value |-> <<>>, q |-> <<>>,
     sweeps |-> 0, log |-> <<>>, traj |-> <<>>]

ZeroValues == [s \in SeqSet(states) |-> Zero]

ZeroQ == [s \in SeqSet(states) |-> [a \in Actions(mdp_network) |-> Zero]]

\* ------------------------------------------------- shared by the solvers
\* "if not transition_probs: transition_probs = {state: 1.0}"
ResolveTransitionsDropped(s, a) == get_transition_probabilities(s, a)

ResolveTransitions(s, a) ==
    LET transition_probs == get_transition_probabilities(s, a)
    IN IF DOMAIN transition_probs = {} THEN (s :> One) ELSE transition_probs

\* The table that "next_value = value_table.get_value(next_state)" reads:
\* the one table of the call, which the sweep overwrites state by state.
BackupSourceSnapshot == sweep_start

BackupSource == value_table

\* "prob * (reward + gamma * next_value)"
TransitionTermDiscountAll(V, next_state, prob) ==
    RMul(prob, RMul(gamma, RAdd(get_state_reward(next_state), V[next_state])))

TransitionTerm(V, next_state, prob) ==
    RMul(prob, RAdd(get_state_reward(next_state), RMul(gamma, V[next_state])))

\* The inner sum over next states for one (state, action), read from table V.
ActionValue(V, s, a) ==
    LET transition_probs == ResolveTransitions(s, a)
    IN RSum([n \in DOMAIN transition_probs |->
                TransitionTerm(V, n, transition_probs[n])],
            DOMAIN transition_probs)

\* The policy-weighted expectation; actions of probability <= 0 are skipped.
PolicyValue(V, s) ==
    LET action_probs == get_action_probabilities(s)
        used == {a \in DOMAIN action_probs : RLt(Zero, action_probs[a])}
    IN RSum([a \in used |-> RMul(action_probs[a], ActionValue(V, s, a))], used)

\* "max(action_values) if action_values else 0.0"
BestValueFirst(qs) == IF DOMAIN qs = {} THEN Zero ELSE qs[0]

BestValue(qs) == IF DOMAIN qs = {} THEN Zero ELSE RMaxOf(qs, DOMAIN qs)

\* "if max_delta < theta"
ConvergedInclusive(md, th) == RLe(md, th)

Converged(md, th) == RLt(md, th)

\* "for iteration in range(max_iterations)": another sweep is due.
MoreSweeps == iteration < max_iterations

Return(diag, table, q, sweeps) ==
    /\ log' = Append(log, diag)
    /\ value_table' = table
    /\ pc' = "done"
    /\ result' = [result EXCEPT ![run] =
                    [returned |-> TRUE, raised |-> FALSE, value |-> table, q |-> q,
                     sweeps |-> sweeps, log |-> Append(log, diag), traj |-> traj]]

\* The loop head of the three sweep solvers; the for-loop's else branch runs
\* when range(max_iterations) is exhausted.
LoopHead(name, final) ==
    /\ pc = "loop"
    /\ IF MoreSweeps
       THEN /\ max_delta' = Zero
            /\ idx' = 1
            /\ sweep_start' = value_table
            /\ pc' = IF name /= "occ" /\ Len(states) = 0 THEN "check" ELSE "sweep"
            /\ UNCHANGED <<log, result, value_table>>
       ELSE /\ Return(<<name, "max_iterations", max_iterations>>, final, q_table,
                      Len(deltas))
            /\ UNCHANGED <<max_delta, idx, sweep_start>>
    /\ UNCHANGED <<inputs, run, q_table, iteration, current_distribution, deltas, qlvars>>

\* The convergence check that ends a sweep; break leaves iteration as it is.
EndSweep(name, final) ==
    /\ pc = "check"
    /\ deltas' = Append(deltas, max_delta)
    /\ IF Converged(max_delta, theta)
       THEN /\ Return(<<name, "converged", iteration + 1>>, final, q_table,
                      Len(deltas) + 1)
            /\ UNCHANGED iteration
       ELSE /\ iteration' = iteration + 1
            /\ pc' = "loop"
            /\ UNCHANGED <<log, result, value_table>>
    /\ UNCHANGED <<inputs, run, q_table, idx, max_delta, current_distribution,
                   sweep_start, qlvars>>

AfterState == IF idx = Len(states) THEN "check" ELSE "sweep"

\* ------------------------------------------------------- policy_evaluation
PECall ==
    /\ alg = "pe" /\ pc = "call"
    /\ value_table' = ZeroValues
    /\ iteration' = 0
    /\ pc' = "loop"
    /\ UNCHANGED <<inputs, run, log, result, q_table, idx, max_delta,
                   current_distribution, sweep_start, deltas, qlvars>>

PELoop == alg = "pe" /\ LoopHead("pe", value_table)

\* One pass of "for state in states" with every state backed up, terminal
\* or not.
PEUpdateNoTerminal(s) ==
    LET new_value == PolicyValue(BackupSource, s)
    IN /\ value_table' = [value_table EXCEPT ![s] = new_value]
       /\ max_delta' = RMax(max_delta, RAbs(RSub(new_value, value_table[s])))

\* One pass of the body of "for state in states".
PEUpdate(s) ==
    IF is_terminal_state(s)
    THEN /\ value_table' = [value_table EXCEPT ![s] = Zero]
         /\ UNCHANGED max_delta
    ELSE LET old_value == value_table[s]
             new_value == PolicyValue(BackupSource, s)
         IN /\ value_table' = [value_table EXCEPT ![s] = new_value]
            /\ max_delta' = RMax(max_delta, RAbs(RSub(new_value, old_value)))

PEState ==
    /\ alg = "pe" /\ pc = "sweep" /\ idx <= Len(states)
    /\ PEUpdate(states[idx])
    /\ idx' = idx + 1
    /\ pc' = AfterState
    /\ UNCHANGED <<inputs, run, log, result, q_table, iteration,
                   current_distribution, sweep_start, deltas, qlvars>>

PECheck == alg = "pe" /\ EndSweep("pe", value_table)

\* ------------------------------------------------- optimal_value_iteration
VICall ==
    /\ alg = "vi" /\ pc = "call"
    /\ value_table' = ZeroValues
    /\ q_table' = ZeroQ
    /\ iteration' = 0
    /\ pc' = "loop"
    /\ UNCHANGED <<inputs, run, log, result, idx, max_delta,
                   current_distribution, sweep_start, deltas, qlvars>>

VILoop == alg = "vi" /\ LoopHead("vi", value_table)

VIUpdate(s) ==
    IF is_terminal_state(s)
    THEN /\ value_table' = [value_table EXCEPT ![s] = Zero]
         /\ q_table' = [q_table EXCEPT ![s] = [a \in Actions(mdp_network) |-> Zero]]
         /\ UNCHANGED max_delta
    ELSE LET old_value == value_table[s]
             action_values == [a \in Actions(mdp_network) |->
                                  ActionValue(BackupSource, s, a)]
             new_value == BestValue(action_values)
         IN /\ q_table' = [q_table EXCEPT ![s] = action_values]
            /\ value_table' = [value_table EXCEPT ![s] = new_value]
            /\ max_delta' = RMax(max_delta, RAbs(RSub(new_value, old_value)))

VIState ==
    /\ alg = "vi" /\ pc = "sweep" /\ idx <= Len(states)
    /\ VIUpdate(states[idx])
    /\ idx' = idx + 1
    /\ pc' = AfterState
    /\ UNCHANGED <<inputs, run, log, result, iteration,
                   current_distribution, sweep_start, deltas, qlvars>>

VICheck == alg = "vi" /\ EndSweep("vi", value_table)

\* ----------------------------------------------- compute_occupancy_measure
\* "Ensure terminal states have zero occupancy"
OccCleanup(table) ==
    [s \in DOMAIN table |-> IF is_terminal_state(s) THEN Zero ELSE table[s]]

OccCall ==
    /\ alg = "occ" /\ pc = "call"
    /\ iteration' = 0
    /\ LET start_states == mdp_network.start_states
       IN IF Len(start_states) = 0
          THEN /\ Return(<<"occ", "no_start_states", 0>>, ZeroValues, q_table, 0)
               /\ UNCHANGED current_distribution
          ELSE /\ value_table' = ZeroValues
               /\ current_distribution' =
                    [s \in SeqSet(start_states) |-> Rat(1, Len(start_states))]
               /\ pc' = "loop"
               /\ UNCHANGED <<log, result>>
    /\ UNCHANGED <<inputs, run, q_table, idx, max_delta, sweep_start, deltas, qlvars>>

OccLoop == alg = "occ" /\ LoopHead("occ", OccCleanup(value_table))

\* "propagated_prob = state_prob * action_prob * transition_prob * gamma"
PropagatedUndiscounted(state_prob, action_prob, transition_prob) ==
    RMul(RMul(state_prob, action_prob), transition_prob)

Propagated(state_prob, action_prob, transition_prob) ==
    RMul(RMul(RMul(state_prob, action_prob), transition_prob), gamma)

\* The states of the current distribution that the iteration does not skip.
OccActive ==
    {s \in DOMAIN current_distribution :
        RLt(Zero, current_distribution[s]) /\ ~is_terminal_state(s)}

\* What one iteration adds to next_distribution[n].
OccInflow(n) ==
    LET pairs == {sa \in OccActive \X Actions(mdp_network) :
                    /\ sa[2] \in DOMAIN get_action_probabilities(sa[1])
                    /\ RLt(Zero, get_action_probabilities(sa[1])[sa[2]])
                    /\ n \in DOMAIN ResolveTransitions(sa[1], sa[2])}
    IN IF is_terminal_state(n) THEN Zero
       ELSE RSum([sa \in pairs |->
                    Propagated(current_distribution[sa[1]],
                               get_action_probabilities(sa[1])[sa[2]],
                               ResolveTransitions(sa[1], sa[2])[n])],
                 pairs)

\* One iteration of the occupancy loop, up to the convergence check.
OccSweep ==
    /\ alg = "occ" /\ pc = "sweep"
    /\ LET new_table == [s \in DOMAIN value_table |->
                            IF s \in OccActive
                            THEN RAdd(value_table[s], current_distribution[s])
                            ELSE value_table[s]]
           changes == [s \in OccActive |-> RAbs(RSub(new_table[s], value_table[s]))]
       IN /\ value_table' = new_table
          /\ max_delta' = IF OccActive = {} THEN Zero
                          ELSE RMax(Zero, RMaxStr(changes, OccActive))
    /\ current_distribution' = [n \in SeqSet(states) |-> OccInflow(n)]
    /\ pc' = "check"
    /\ UNCHANGED <<inputs, run, log, result, q_table, iteration, idx,
                   sweep_start, deltas, qlvars>>

OccCheck == alg = "occ" /\ EndSweep("occ", OccCleanup(value_table))

\* ------------------------------------------------------------- q_learning
\* numpy's generator, reduced to a 16-state linear congruential generator of
\* full period: the stream is a function of the seed alone.
RngNext(x) == (5 * x + 3) % 16

\* rng.random(): a float in [0, 1).
Random(x) == Rat(x, 16)

\* rng.integers(0, n): an integer in [0, n).
Integers(x, n) == (x * n) \div 16

\* "rng = np.random.default_rng(seed)" without the seed: seeded from the
\* operating system's entropy.
SeedRngUnseeded == rng' \in 0..15

SeedRng == rng' = seed % 16

\* MDPNetwork.sample_start_state: one draw, uniform over the start states.
sample_start_state(x) ==
    mdp_network.start_states[Integers(x, Len(mdp_network.start_states)) + 1]

\* MDPNetwork.sample_next_state: one draw, inverted through the cumulative
\* distribution of (state, action) taken in the order of .states.
sample_next_state(s, a, x) ==
    LET d == get_transition_probabilities(s, a)
        keys == SelectSeq(states, LAMBDA k : k \in DOMAIN d)
        Cum(i) == RSum([j \in 1..i |-> d[keys[j]]], 1..i)
        i == CHOOSE i \in 1..Len(keys) :
                /\ RLt(Random(x), Cum(i))
                /\ i = 1 \/ ~RLt(Random(x), Cum(i - 1))
    IN keys[i]

\* QTable.get_best_action: the first action index that attains the maximum,
\* and that maximum.
get_best_action(q, s) ==
    LET best == RMaxOf(q[s], DOMAIN q[s])
    IN <<CHOOSE a \in DOMAIN q[s] :
            q[s][a] = best /\ \A b \in DOMAIN q[s] : q[s][b] = best => a <= b,
         best>>

\* "new_q = current_q + alpha * (target_q - current_q)"
NewQNoError(current_q, target_q) == RAdd(current_q, RMul(alpha, target_q))

NewQ(current_q, target_q) ==
    RAdd(current_q, RMul(alpha, RSub(target_q, current_q)))

\* The target of one update, from the table q and the sampled next state.
TargetQ(q, next_state) ==
    LET reward == get_state_reward(next_state)
    IN IF is_terminal_state(next_state) THEN reward
       ELSE RAdd(reward, RMul(gamma, get_best_action(q, next_state)[2]))

QLCall ==
    /\ alg = "ql" /\ pc = "call"
    /\ SeedRng
    /\ q_table' = ZeroQ
    /\ value_table' = ZeroValues
    /\ episode' = 0
    /\ pc' = "episode"
    /\ UNCHANGED <<inputs, run, log, result, sweepvars, step, current_state, traj, last>>

\* "for episode in range(num_episodes)": the start of an episode, or, with the
\* range exhausted, the extraction of the value table and the return.
QLEpisode ==
    /\ alg = "ql" /\ pc = "episode"
    /\ IF episode < num_episodes
       THEN /\ rng' = RngNext(rng)
            /\ current_state' = sample_start_state(RngNext(rng))
            /\ step' = 0
            /\ pc' = "step"
            /\ UNCHANGED <<value_table, result>>
       ELSE LET table == [s \in SeqSet(states) |->
                            IF is_terminal_state(s) THEN Zero
                            ELSE get_best_action(q_table, s)[2]]
            IN /\ value_table' = table
               /\ pc' = "done"
               /\ result' = [result EXCEPT ![run] =
                               [returned |-> TRUE, raised |-> FALSE,
                                value |-> table, q |-> q_table, sweeps |-> episode,
                                log |-> log, traj |-> traj]]
               /\ UNCHANGED <<rng, current_state, step>>
    /\ UNCHANGED <<inputs, run, log, q_table, sweepvars, episode, traj, last>>

\* One pass of the body of "for step in range(max_steps_per_episode)" that
\* does not break.
QLStep ==
    /\ alg = "ql" /\ pc = "step"
    /\ step < max_steps_per_episode
    /\ ~is_terminal_state(current_state)
    /\ LET x1 == RngNext(rng)
           explore == RLt(Random(x1), epsilon)
           x2 == IF explore THEN RngNext(x1) ELSE x1
           action == IF explore THEN Integers(x2, mdp_network.num_actions)
                     ELSE get_best_action(q_table, current_state)[1]
           x3 == RngNext(x2)
           next_state == sample_next_state(current_state, action, x3)
           current_q == q_table[current_state][action]
           new_q == NewQ(current_q, TargetQ(q_table, next_state))
       IN /\ q_table' = [q_table EXCEPT ![current_state][action] = new_q]
          /\ rng' = x3
          /\ current_state' = next_state
          /\ traj' = Append(traj, <<current_state, action, next_state>>)
          /\ last' = [state |-> current_state, action |-> action,
                      next_state |-> next_state, explore |-> explore,
                      q_before |-> q_table]
    /\ step' = step + 1
    /\ UNCHANGED <<inputs, run, pc, log, result, value_table, sweepvars, episode>>

\* The end of an episode (the break on a terminal state or the exhausted
\* range) and the progress report; "%" by num_episodes // 10 = 0 raises
\* ZeroDivisionError, which ends the call.
QLEpisodeEnd ==
    /\ alg = "ql" /\ pc = "step"
    /\ ~(step < max_steps_per_episode /\ ~is_terminal_state(current_state))
    /\ IF num_episodes \div 10 = 0
       THEN /\ pc' = "raised"
            /\ result' = [result EXCEPT ![run] =
                            [returned |-> FALSE, raised |-> TRUE,
                             value |-> value_table, q |-> q_table,
                             sweeps |-> episode, log |-> log, traj |-> traj]]
            /\ UNCHANGED <<log, episode>>
       ELSE /\ log' = IF (episode + 1) % (num_episodes \div 10) = 0
                      THEN Append(log, <<"ql", "progress", episode + 1>>)
                      ELSE log
            /\ episode' = episode + 1
            /\ pc' = "episode"
            /\ UNCHANGED result
    /\ UNCHANGED <<inputs, run, value_table, q_table, sweepvars, rng, step,
                   current_state, traj, last>>

\* ------------------------------------------------------- the second call
Rerun ==
    /\ run = 1 /\ pc \in {"done", "raised"}
    /\ run' = 2
    /\ pc' = "call"
    /\ log' = <<>>
    /\ value_table' = <<>>
    /\ q_table' = <<>>
    /\ iteration' = 0 /\ idx' = 0 /\ max_delta' = Zero
    /\ current_distribution' = <<>> /\ sweep_start' = <<>> /\ deltas' = <<>>
    /\ rng' = 0 /\ episode' = 0 /\ step' = 0 /\ current_state' = "" /\ traj' = <<>>
    /\ last' = <<>>
    /\ UNCHANGED <<inputs, result>>

InitWork ==
    /\ run = 1 /\ pc = "call" /\ log = <<>>
    /\ result = [r \in 1..2 |-> NoResult]
    /\ value_table = <<>> /\ q_table = <<>>
    /\ iteration = 0 /\ idx = 0 /\ max_delta = Zero
    /\ current_distribution = <<>> /\ sweep_start = <<>> /\ deltas = <<>>
    /\ rng = 0 /\ episode = 0 /\ step = 0 /\ current_state = "" /\ traj = <<>>
    /\ last = <<>>

Init ==
    /\ alg \in {"pe", "vi", "occ"}
    /\ \E M \in Models :
         /\ \E M2 \in SecondModels(M) : models = <<M, M2>>
         /\ policy \in (IF alg = "vi" THEN {PolicyUniform(M)} ELSE Policies(M))
         /\ gamma \in Gammas(M)
    /\ theta \in Thetas
    /\ max_iterations \in 0..MaxIterations
    /\ alpha = Zero /\ epsilon = Zero /\ num_episodes = 0
    /\ max_steps_per_episode = 0 /\ seed = 0
    /\ InitWork

Next ==
    \/ PECall \/ PELoop \/ PEState \/ PECheck
    \/ VICall \/ VILoop \/ VIState \/ VICheck
    \/ OccCall \/ OccLoop \/ OccSweep \/ OccCheck
    \/ Rerun

Spec == Init /\ [][Next]_vars

\* The q_learning calls: the same model and the same seed in both runs.
\* The cyclic model is run with alpha = gamma = 1, which keeps its Q-values
\* integers; the acyclic ones with alpha in {1/2, 1} and gamma = 1/2.
Cycle == [Branch EXCEPT !.P["A"][1] = ("B" :> One)]

QLModels == {Chain3, Diamond, Cycle}

InitQL ==
    /\ alg = "ql"
    /\ \E M \in QLModels :
         /\ models = <<M, M>>
         /\ policy = PolicyUniform(M)
         /\ IF M = Cycle THEN alpha = One /\ gamma = One
            ELSE alpha \in {Half, One} /\ gamma = Half
    /\ theta = Zero /\ max_iterations = 0
    /\ epsilon \in {Zero, Half, One}
    /\ num_episodes \in {1, MaxEpisodes - 1, MaxEpisodes}
    /\ max_steps_per_episode \in 1..MaxSteps
    /\ seed \in 0..MaxSeed
    /\ InitWork

NextQL == QLCall \/ QLEpisode \/ QLStep \/ QLEpisodeEnd \/ Rerun

SpecQL == InitQL /\ [][NextQL]_vars

\* ------------------------------------------------------ claims: the sweeps
Returned(r) == result[r].returned

StateSet(r) == SeqSet(models[r].states)

NonTerminal(r) == StateSet(r) \ models[r].terminal

TablesReady == pc \in {"loop", "sweep", "check", "done"}

C1_Scenario(r) ==
    /\ alg = "vi" /\ models[r] = Chain2 /\ gamma = <<9, 10>>
    /\ max_iterations >= 1 /\ Returned(r)

\* C1 (as stated): on the chain A -> B with B terminal, reward(A) = 0,
\* reward(B) = 1, one action, gamma = 0.9 and max_iterations >= 1,
\* optimal_value_iteration returns value(B) = 0, value(A) = 0.9, Q(A,0) = 0.9.
C1_ChainValuesAsClaimed ==
    \A r \in 1..2 :
        C1_Scenario(r) =>
            /\ result[r].value["B"] = Zero
            /\ result[r].value["A"] = <<9, 10>>
            /\ result[r].q["A"][0] = <<9, 10>>

\* C1 (amended): in that scenario optimal_value_iteration returns
\* value(B) = 0, value(A) = 1 and Q(A,0) = 1: the reward of B is collected
\* undiscounted on arrival, and only the value of B (0) is discounted.
C1_ChainValues ==
    \A r \in 1..2 :
        C1_Scenario(r) =>
            /\ result[r].value["B"] = Zero
            /\ result[r].value["A"] = One
            /\ result[r].q["A"][0] = One
            /\ result[r].q["B"][0] = Zero

C1_Witness ==
    /\ C1_Scenario(1) /\ result[1].sweeps >= 2
    /\ result[1].value["A"] = One /\ theta = <<1, 4>>

\* C3: the tables of policy_evaluation and optimal_value_iteration hold 0 for
\* every terminal state, and the Q-table of optimal_value_iteration holds 0
\* for every (terminal state, action), from initialisation on, after every
\* sweep and in the returned tables.
C3_TerminalZero ==
    alg \in {"pe", "vi"} =>
        /\ TablesReady =>
             \A s \in mdp_network.terminal :
                /\ value_table[s] = Zero
                /\ alg = "vi" => \A a \in Actions(mdp_network) : q_table[s][a] = Zero
        /\ \A r \in 1..2 : Returned(r) =>
             \A s \in models[r].terminal :
                /\ result[r].value[s] = Zero
                /\ alg = "vi" => \A a \in Actions(models[r]) : result[r].q[s][a] = Zero

C3_Witness ==
    /\ alg = "pe" /\ Returned(1) /\ result[1].sweeps >= 2
    /\ models[1] = Branch
    /\ result[1].value["C"] = Zero
    /\ result[1].value["A"] /= Zero /\ result[1].value["B"] /= Zero

\* The largest absolute change of a table entry since the sweep began.
MaxChange ==
    LET S == SeqSet(states)
    IN IF S = {} THEN Zero
       ELSE RMaxStr([s \in S |-> RAbs(RSub(value_table[s], sweep_start[s]))], S)

C4_Applies == alg \in {"pe", "vi", "occ"} /\ Len(mdp_network.start_states) > 0

\* The sweeps run so far, their recorded changes and the diagnostic.
C4_Sweeps ==
    C4_Applies =>
        /\ iteration <= max_iterations
        /\ Len(deltas) <= max_iterations
        /\ pc = "check" => max_delta = MaxChange /\ Len(deltas) = iteration
        /\ \A i \in 1..(Len(deltas) - 1) : ~RLt(deltas[i], theta)
        /\ pc \in {"loop", "sweep", "check"} =>
              \A i \in 1..Len(deltas) : ~RLt(deltas[i], theta)
        /\ pc = "done" =>
              LET n == Len(deltas)
              IN /\ result[run].sweeps = n
                 /\ Len(log) = 1
                 /\ IF n >= 1 /\ RLt(deltas[n], theta)
                    THEN log[1] = <<alg, "converged", n>>
                    ELSE n = max_iterations
                         /\ log[1] = <<alg, "max_iterations", max_iterations>>

\* An upper bound on the steps a call still has to take.
SweepCost == Len(states) + 3

CallMeasure ==
    CASE pc = "call" -> 3 + max_iterations * SweepCost
      [] pc = "loop" -> 1 + (max_iterations - iteration) * SweepCost
      [] pc = "sweep" ->
            (max_iterations - iteration - 1) * SweepCost + 3 + Len(states) - idx
      [] pc = "check" -> (max_iterations - iteration - 1) * SweepCost + 2
      [] OTHER -> 0

Measure ==
    (IF run = 1 THEN 4 + max_iterations * SweepCost ELSE 0) + CallMeasure

\* Some step of the solvers is possible.
C4_CanStep ==
    \/ pc \in {"call", "loop", "check"}
    \/ pc = "sweep" /\ (alg = "occ" \/ idx <= Len(states))
    \/ pc = "done" /\ run = 1

C4_Finished == pc = "done" /\ run = 2 /\ Returned(1) /\ Returned(2)

\* C4: policy_evaluation, optimal_value_iteration and
\* compute_occupancy_measure (with a start state) terminate; max_delta at the
\* convergence check is the largest absolute change of a table entry in the
\* sweep; the loop stops right after the first sweep whose change is below
\* theta and otherwise runs max_iterations sweeps; "converged" is logged
\* exactly when the loop stopped through the threshold check.
C4_Terminates ==
    /\ []C4_Sweeps
    /\ [](Measure >= 0 /\ (C4_Finished \/ C4_CanStep))
    /\ [][Measure' < Measure]_vars

C4_Witness ==
    /\ alg = "occ" /\ pc = "done" /\ run = 2
    /\ Len(deltas) = max_iterations /\ max_iterations >= 2
    /\ RLt(deltas[Len(deltas)], theta)
    /\ log = <<(<<"occ", "converged", max_iterations>>)>>

\* C5: a model with an empty distribution on a non-terminal (state, action)
\* and the model that gives that pair the explicit distribution {state: 1}
\* yield the same returned tables, the same number of sweeps and the same
\* diagnostic, for the same policy, gamma, theta and max_iterations.
C5_SelfLoopEquivalent ==
    (Returned(1) /\ Returned(2)) =>
        /\ result[1].value = result[2].value
        /\ result[1].q = result[2].q
        /\ result[1].sweeps = result[2].sweeps
        /\ result[1].log = result[2].log

C5_Witness ==
    /\ Returned(1) /\ Returned(2)
    /\ models[1] = Branch /\ models[2] /= Branch
    /\ alg = "pe" /\ policy = PolicyLast(Branch)
    /\ result[2].sweeps >= 2
    /\ result[2].value["A"] /= Zero
    /\ result[1].value = result[2].value

\* The expected reward of one step from s under a.
OneStepReward(M, s, a) ==
    LET d == IF DOMAIN M.P[s][a] = {} THEN (s :> One) ELSE M.P[s][a]
    IN RSum([n \in DOMAIN d |-> RMul(d[n], M.reward[n])], DOMAIN d)

MaxOneStepReward(M, s) ==
    CHOOSE v \in {OneStepReward(M, s, a) : a \in Actions(M)} :
        \A a \in Actions(M) : RLe(OneStepReward(M, s, a), v)

C6_FirstSweepDone == pc = "check" \/ (pc \in {"loop", "sweep"} /\ iteration >= 1)

\* C6: with gamma = 0, once the first sweep of optimal_value_iteration is
\* complete the value of every non-terminal state is the maximum over the
\* actions of sum P(s'|s,a) * reward(s') (an empty distribution taken as a
\* self-loop), in every later sweep and in the returned table, whatever
\* theta and max_iterations are.
C6_GammaZero ==
    (alg = "vi" /\ gamma = Zero) =>
        /\ C6_FirstSweepDone =>
             \A s \in NonTerminal(run) :
                value_table[s] = MaxOneStepReward(mdp_network, s)
        /\ \A r \in 1..2 : (Returned(r) /\ result[r].sweeps >= 1) =>
             \A s \in NonTerminal(r) :
                result[r].value[s] = MaxOneStepReward(models[r], s)

C6_Witness ==
    /\ alg = "vi" /\ gamma = Zero /\ models[1] = Branch
    /\ Returned(1) /\ result[1].sweeps = 3
    /\ result[1].value["A"] = One /\ result[1].value["B"] = <<2, 1>>

RECURSIVE RPow(_, _)
RPow(x, n) == IF n = 0 THEN One ELSE RMul(x, RPow(x, n - 1))

\* The states one transition of positive probability away.
Successors(M, s) ==
    IF s \in M.terminal THEN {}
    ELSE UNION {IF DOMAIN M.P[s][a] = {} THEN {s} ELSE DOMAIN M.P[s][a] :
                    a \in Actions(M)}

RECURSIVE ReachWithin(_, _, _)
ReachWithin(M, S, n) ==
    IF n = 0 THEN {}
    ELSE LET step1 == UNION {Successors(M, s) : s \in S}
         IN step1 \cup ReachWithin(M, step1, n - 1)

Acyclic(M) ==
    \A s \in SeqSet(M.states) : s \notin ReachWithin(M, {s}, Len(M.states))

SumsToOne(f) == RSum(f, DOMAIN f) = One

C7_Applies(r) ==
    /\ alg = "occ" /\ Acyclic(models[r])
    /\ RLe(Zero, gamma) /\ RLt(gamma, One)
    /\ \A s \in NonTerminal(r) :
          /\ SumsToOne(policy[s])
          /\ \A a \in Actions(models[r]) : SumsToOne(models[r].P[s][a])

WithinDiscountedBound(table) ==
    RLe(RMul(RSum(table, DOMAIN table), RSub(One, gamma)), One)

\* C7: for compute_occupancy_measure on an acyclic model, with policy and
\* transition distributions summing to 1 and 0 <= gamma < 1, the returned
\* occupancy of every terminal state is 0, the mass added in iteration t
\* is at most gamma^t, and the occupancies sum to at most 1/(1-gamma).
C7_OccupancyBound ==
    /\ (C7_Applies(run) /\ pc = "sweep") =>
          RLe(RSum(current_distribution, OccActive), RPow(gamma, iteration))
    /\ (C7_Applies(run) /\ TablesReady) => WithinDiscountedBound(value_table)
    /\ \A r \in 1..2 : (C7_Applies(r) /\ Returned(r)) =>
          /\ \A s \in models[r].terminal : result[r].value[s] = Zero
          /\ WithinDiscountedBound(result[r].value)

C7_Witness ==
    /\ C7_Applies(1) /\ Returned(1) /\ models[1] = Diamond
    /\ gamma = Half /\ result[1].sweeps = 3
    /\ policy = PolicyUniform(Diamond)
    /\ result[1].value["C"] = Zero
    /\ RLt(One, RSum(result[1].value, DOMAIN result[1].value))

\* The position of a state in the sweep order.
Pos(x) == CHOOSE i \in 1..Len(states) : states[i] = x

Expected(V, s) ==
    IF is_terminal_state(s) THEN Zero
    ELSE IF alg = "pe" THEN PolicyValue(V, s)
    ELSE BestValue([a \in Actions(mdp_network) |-> ActionValue(V, s, a)])

C9_InSweep == alg \in {"pe", "vi"} /\ pc \in {"sweep", "check"}

\* C9 (as stated): in every sweep of policy_evaluation and
\* optimal_value_iteration the new value of each state is computed only from
\* the values the table held at the start of that sweep.
C9_Synchronous ==
    C9_InSweep =>
        \A j \in 1..(idx - 1) :
            value_table[states[j]] = Expected(sweep_start, states[j])

TableSeenAt(j) ==
    [x \in SeqSet(states) |->
        IF Pos(x) < j THEN value_table[x] ELSE sweep_start[x]]

\* C9 (amended): the new value of each state is computed from the one table
\* as it stands when that state is processed: for the states earlier in the
\* sweep order the values written in this sweep are read, for the others the
\* values from the start of the sweep (an in-place, Gauss-Seidel-style sweep).
C9_InPlace ==
    C9_InSweep =>
        \A j \in 1..(idx - 1) :
            /\ value_table[states[j]] = Expected(TableSeenAt(j), states[j])
            /\ (alg = "vi" /\ ~is_terminal_state(states[j])) =>
                  \A a \in Actions(mdp_network) :
                     q_table[states[j]][a] = ActionValue(TableSeenAt(j), states[j], a)

C9_Witness ==
    /\ alg = "pe" /\ mdp_network = Chain3 /\ gamma = Half
    /\ pc = "check" /\ iteration = 0
    /\ sweep_start["B"] = Zero /\ value_table["B"] = One
    /\ value_table["A"] = Half

\* --------------------------------------------------- claims: q_learning
Finished(r) == result[r].returned \/ result[r].raised

\* C2: for every num_episodes >= 1, q_learning runs exactly num_episodes
\* episodes and then returns its tables; the progress report never stops or
\* aborts the run.
C2_RunsAllEpisodes ==
    alg = "ql" =>
        /\ pc /= "raised"
        /\ \A r \in 1..2 : ~result[r].raised
        /\ pc = "done" => Returned(run) /\ episode = num_episodes

IsPrefix(p, q) == Len(p) <= Len(q) /\ \A i \in 1..Len(p) : p[i] = q[i]

MaxQ(q, s) ==
    CHOOSE v \in {q[s][a] : a \in DOMAIN q[s]} :
        \A a \in DOMAIN q[s] : RLe(q[s][a], v)

C10_Target(q, n) ==
    IF n \in mdp_network.terminal THEN mdp_network.reward[n]
    ELSE RAdd(mdp_network.reward[n], RMul(gamma, MaxQ(q, n)))

\* What a transition may do to the Q-table: a step appends to traj.
C10_StepEffect ==
    IF Len(traj') > Len(traj)
    THEN LET e == traj'[Len(traj')]
             old == q_table[e[1]][e[2]]
             new == RAdd(old, RMul(alpha, RSub(C10_Target(q_table, e[3]), old)))
         IN /\ traj' = Append(traj, e)
            /\ e[1] = current_state
            /\ e[1] \notin mdp_network.terminal
            /\ e[2] \in Actions(mdp_network)
            /\ current_state' = e[3]
            /\ \A s \in SeqSet(states) : \A a \in Actions(mdp_network) :
                  q_table'[s][a] = IF <<s, a>> = <<e[1], e[2]>> THEN new
                                   ELSE q_table[s][a]
    ELSE pc \in {"episode", "step"} => q_table' = q_table

\* Terminal entries of the Q-table are 0.
C10_TerminalZero ==
    alg = "ql" =>
        /\ pc \in {"episode", "step", "done", "raised"} =>
              \A s \in mdp_network.terminal : \A a \in Actions(mdp_network) :
                 q_table[s][a] = Zero
        /\ \A r \in 1..2 : Finished(r) =>
              \A s \in models[r].terminal : \A a \in Actions(models[r]) :
                 result[r].q[s][a] = Zero

\* C10: every step of q_learning changes the one Q-table entry of (current
\* state, chosen action), the current state being non-terminal, to
\* Q + alpha * (target - Q) with target = reward(next) if next is terminal,
\* else reward(next) + gamma * max_a Q(next, a), and moves to the next
\* state; nothing else writes the Q-table, so the Q-value of every (terminal
\* state, action) stays 0 through the run and in the returned table.
C10_OneEntry == [][alg = "ql" => C10_StepEffect]_vars /\ []C10_TerminalZero

C10_Witness ==
    /\ alg = "ql" /\ pc = "step" /\ last /= <<>>
    /\ alpha = Half /\ mdp_network = Diamond
    /\ ~is_terminal_state(last.next_state)
    /\ last.q_before[last.state][last.action] /= Zero
    /\ MaxQ(last.q_before, last.next_state) /= Zero
    /\ q_table[last.state][last.action] /= last.q_before[last.state][last.action]
    /\ \E a \in Actions(mdp_network) :
          a /= last.action /\ q_table[last.state][a] /= Zero

====
